---- MODULE Spec2Model ----
(***************************************************************************)
(* Unit conversion engine and cost aggregation of the Recipe Management    *)
(* System (rms_modern.py), and the plate and scaling pages of its web      *)
(* application (web_app.py).                                               *)
(*                                                                         *)
(* Numbers.  The program computes with binary floating point.  A factor or *)
(* a price is kept here as the exact rational <<numerator, denominator>>   *)
(* of its decimal literal, and a converted quantity is kept as the         *)
(* expression the program evaluates: a base quantity followed by the       *)
(* multiplications and divisions applied to it, in order.  Two equal       *)
(* expressions are equal floats.  Money that went through round(x, 2) is   *)
(* an integer number of cents.                                             *)
(***************************************************************************)
EXTENDS Integers, Sequences, FiniteSets, TLC

VARIABLES
    conversion_factors,   \* UnitConverter.conversion_factors: (from, to) -> factor
    db,                   \* rows of the database read by the running operation
    pc,                   \* "idle" before the operation is invoked, "done" after it returned or raised
    call,                 \* the operation invoked and its arguments
    result                \* what the operation returned or raised

vars == <<conversion_factors, db, pc, call, result>>

----------------------------------------------------------------------------
(* Bounds *)

\* Quantities passed to convert and stored on lines are 0 .. MaxQuantity.
MaxQuantity == 2

\* Nesting of convert calls explored before the interpreter's recursion
\* limit is taken to be hit.
MaxDepth == 3

\* Largest number of servings a recipe is scaled to.
MaxTarget == 10

----------------------------------------------------------------------------
(* UnitConverter.__init__ : the registered edges *)

\* Volume conversions
VolumeConversions ==
    <<"Gal.", "qt.">> :> <<4, 1>> @@ <<"Gal.", "pt.">> :> <<8, 1>> @@ <<"Gal.", "C">> :> <<16, 1>>
 @@ <<"Gal.", "oz.">> :> <<128, 1>> @@ <<"Gal.", "T">> :> <<256, 1>> @@ <<"Gal.", "t">> :> <<768, 1>>
 @@ <<"Gal.", "L">> :> <<378541, 100000>> @@ <<"Gal.", "mL">> :> <<378541, 100>>
 @@ <<"Gal.", "lb">> :> <<8, 1>>
 @@ <<"qt.", "Gal.">> :> <<25, 100>> @@ <<"qt.", "pt.">> :> <<2, 1>> @@ <<"qt.", "C">> :> <<4, 1>>
 @@ <<"qt.", "oz.">> :> <<32, 1>> @@ <<"qt.", "T">> :> <<64, 1>> @@ <<"qt.", "t">> :> <<192, 1>>
 @@ <<"qt.", "L">> :> <<946353, 1000000>> @@ <<"qt.", "mL">> :> <<946353, 1000>>
 @@ <<"qt.", "lb">> :> <<2, 1>>
 @@ <<"pt.", "Gal.">> :> <<125, 1000>> @@ <<"pt.", "qt.">> :> <<5, 10>> @@ <<"pt.", "C">> :> <<2, 1>>
 @@ <<"pt.", "oz.">> :> <<16, 1>> @@ <<"pt.", "T">> :> <<32, 1>> @@ <<"pt.", "t">> :> <<96, 1>>
 @@ <<"pt.", "L">> :> <<473176, 1000000>> @@ <<"pt.", "mL">> :> <<473176, 1000>>
 @@ <<"pt.", "lb">> :> <<1, 1>>
 @@ <<"C", "Gal.">> :> <<625, 10000>> @@ <<"C", "qt.">> :> <<25, 100>> @@ <<"C", "pt.">> :> <<5, 10>>
 @@ <<"C", "oz.">> :> <<8, 1>> @@ <<"C", "T">> :> <<16, 1>> @@ <<"C", "t">> :> <<48, 1>>
 @@ <<"C", "L">> :> <<236588, 1000000>> @@ <<"C", "mL">> :> <<236588, 1000>>
 @@ <<"C", "lb">> :> <<5, 10>>
 @@ <<"oz.", "Gal.">> :> <<78125, 10000000>> @@ <<"oz.", "qt.">> :> <<3125, 100000>> @@ <<"oz.", "pt.">> :> <<625, 10000>>
 @@ <<"oz.", "C">> :> <<125, 1000>> @@ <<"oz.", "T">> :> <<2, 1>> @@ <<"oz.", "t">> :> <<6, 1>>
 @@ <<"oz.", "L">> :> <<295735, 10000000>> @@ <<"oz.", "mL">> :> <<295735, 10000>>
 @@ <<"oz.", "lb">> :> <<625, 10000>>
 @@ <<"T", "Gal.">> :> <<390625, 100000000>> @@ <<"T", "qt.">> :> <<15625, 1000000>> @@ <<"T", "pt.">> :> <<3125, 100000>>
 @@ <<"T", "C">> :> <<625, 10000>> @@ <<"T", "oz.">> :> <<5, 10>> @@ <<"T", "t">> :> <<3, 1>>
 @@ <<"T", "L">> :> <<147868, 10000000>> @@ <<"T", "mL">> :> <<147868, 10000>>
 @@ <<"T", "lb">> :> <<3125, 100000>>
 @@ <<"T", "bunch">> :> <<625, 10000>>
 @@ <<"t", "Gal.">> :> <<130208, 100000000>> @@ <<"t", "qt.">> :> <<520833, 100000000>> @@ <<"t", "pt.">> :> <<104167, 10000000>>
 @@ <<"t", "C">> :> <<208333, 10000000>> @@ <<"t", "oz.">> :> <<166667, 1000000>> @@ <<"t", "T">> :> <<333333, 1000000>>
 @@ <<"t", "L">> :> <<492892, 100000000>> @@ <<"t", "mL">> :> <<492892, 100000>>
 @@ <<"t", "lb">> :> <<104167, 10000000>>

\* Weight and metric conversions; ("oz.", "lb") is written again on line 137
\* with the value it already has from line 118
WeightConversions ==
    <<"lb", "oz.">> :> <<16, 1>> @@ <<"lb", "g">> :> <<453592, 1000>> @@ <<"lb", "Kg">> :> <<453592, 1000000>>
 @@ <<"lb", "Gal.">> :> <<125, 1000>> @@ <<"lb", "qt.">> :> <<5, 10>> @@ <<"lb", "pt.">> :> <<1, 1>>
 @@ <<"lb", "C">> :> <<2, 1>>
 @@ <<"lb", "T">> :> <<32, 1>> @@ <<"lb", "t">> :> <<96, 1>>
 @@ <<"lb", "L">> :> <<453592, 1000000>> @@ <<"lb", "mL">> :> <<453592, 1000>>
 @@ <<"oz.", "g">> :> <<283495, 10000>>
 @@ <<"g", "lb">> :> <<220462, 100000000>> @@ <<"g", "oz.">> :> <<35274, 1000000>>
 @@ <<"Kg", "lb">> :> <<220462, 100000>>
 @@ <<"L", "Gal.">> :> <<264172, 1000000>> @@ <<"L", "qt.">> :> <<105669, 100000>> @@ <<"L", "pt.">> :> <<211338, 100000>>
 @@ <<"L", "C">> :> <<422675, 100000>> @@ <<"L", "oz.">> :> <<33814, 1000>> @@ <<"L", "T">> :> <<67628, 1000>>
 @@ <<"L", "t">> :> <<202884, 1000>>
 @@ <<"L", "lb">> :> <<220462, 100000>> @@ <<"L", "mL">> :> <<1000, 1>>
 @@ <<"mL", "Gal.">> :> <<264172, 1000000000>> @@ <<"mL", "qt.">> :> <<105669, 100000000>> @@ <<"mL", "pt.">> :> <<211338, 100000000>>
 @@ <<"mL", "C">> :> <<422675, 100000000>> @@ <<"mL", "oz.">> :> <<33814, 1000000>> @@ <<"mL", "T">> :> <<67628, 1000000>>
 @@ <<"mL", "t">> :> <<202884, 1000000>>
 @@ <<"mL", "lb">> :> <<220462, 100000000>> @@ <<"mL", "L">> :> <<1, 1000>>

\* Count conversions
CountConversions ==
    <<"doz.", "ea">> :> <<12, 1>> @@ <<"ea", "doz.">> :> <<833333, 10000000>>
 @@ <<"case", "ea">> :> <<24, 1>> @@ <<"ea", "case">> :> <<416667, 10000000>>

\* Special conversions
SpecialConversions ==
    <<"clove", "lb">> :> <<2, 100>> @@ <<"lb", "clove">> :> <<50, 1>>
 @@ <<"tbsp", "clove">> :> <<3, 1>>
 @@ <<"bunch", "t">> :> <<70, 1>> @@ <<"t", "bunch">> :> <<142857, 10000000>>
 @@ <<"bunch", "T">> :> <<16, 1>>
 @@ <<"loaf", "slice">> :> <<15, 1>> @@ <<"slice", "loaf">> :> <<666667, 10000000>>

\* Can conversions (standard #10 can)
CanConversions ==
    <<"can", "oz.">> :> <<106, 1>> @@ <<"oz.", "can">> :> <<943396, 100000000>>
 @@ <<"can", "C">> :> <<1325, 100>> @@ <<"C", "can">> :> <<754717, 10000000>>

\* Produce conversions
ProduceConversions ==
    <<"head", "ea">> :> <<1, 1>> @@ <<"ea", "head">> :> <<1, 1>>

\* Mutant: two produce items are also registered by the pound, which gives
\* "ea-tomato" and "ea-lemon" a path to "oz." of their own.
ProduceWeightConversions_by_pound ==
    <<"ea-cucumber", "oz">> :> <<35, 10>> @@ <<"oz", "ea-cucumber">> :> <<2857, 10000>>
 @@ <<"ea-plum-tomato", "oz">> :> <<25, 10>> @@ <<"oz", "ea-plum-tomato">> :> <<4, 10>>
 @@ <<"ea-tomato", "oz">> :> <<5, 1>> @@ <<"oz", "ea-tomato">> :> <<2, 10>>
 @@ <<"ea-olive", "oz">> :> <<15, 100>> @@ <<"oz", "ea-olive">> :> <<667, 100>>
 @@ <<"ea-lemon", "oz">> :> <<35, 10>> @@ <<"oz", "ea-lemon">> :> <<2857, 10000>>
 @@ <<"ea-shrimp-16-20", "lb">> :> <<556, 10000>> @@ <<"lb", "ea-shrimp-16-20">> :> <<18, 1>>
 @@ <<"ea-tomato", "lb">> :> <<3125, 10000>> @@ <<"lb", "ea-lemon">> :> <<457, 100>>

\* Produce weight conversions (approximate averages)
ProduceWeightConversions ==
    <<"ea-cucumber", "oz">> :> <<35, 10>> @@ <<"oz", "ea-cucumber">> :> <<2857, 10000>>
 @@ <<"ea-plum-tomato", "oz">> :> <<25, 10>> @@ <<"oz", "ea-plum-tomato">> :> <<4, 10>>
 @@ <<"ea-tomato", "oz">> :> <<5, 1>> @@ <<"oz", "ea-tomato">> :> <<2, 10>>
 @@ <<"ea-olive", "oz">> :> <<15, 100>> @@ <<"oz", "ea-olive">> :> <<667, 100>>
 @@ <<"ea-lemon", "oz">> :> <<35, 10>> @@ <<"oz", "ea-lemon">> :> <<2857, 10000>>
 @@ <<"ea-shrimp-16-20", "lb">> :> <<556, 10000>> @@ <<"lb", "ea-shrimp-16-20">> :> <<18, 1>>

\* Count unit equivalencies
CountEquivalencies ==
    <<"pieces", "each">> :> <<1, 1>> @@ <<"each", "pieces">> :> <<1, 1>>
 @@ <<"piece", "each">> :> <<1, 1>> @@ <<"each", "piece">> :> <<1, 1>>
 @@ <<"pieces", "ea">> :> <<1, 1>> @@ <<"ea", "pieces">> :> <<1, 1>>
 @@ <<"piece", "ea">> :> <<1, 1>> @@ <<"ea", "piece">> :> <<1, 1>>

\* Culinary unit conversions (approximate small quantities)
CulinaryConversions ==
    <<"pinch", "t">> :> <<625, 10000>> @@ <<"t", "pinch">> :> <<16, 1>>
 @@ <<"sprinkle", "t">> :> <<125, 1000>> @@ <<"t", "sprinkle">> :> <<8, 1>>
 @@ <<"dash", "t">> :> <<125, 1000>> @@ <<"t", "dash">> :> <<8, 1>>
 @@ <<"drizzle", "T">> :> <<5, 10>> @@ <<"T", "drizzle">> :> <<2, 1>>
 @@ <<"dollop", "T">> :> <<1, 1>> @@ <<"T", "dollop">> :> <<1, 1>>
 @@ <<"garnish", "t">> :> <<25, 100>> @@ <<"t", "garnish">> :> <<4, 1>>
 @@ <<"sprig", "t">> :> <<125, 1000>> @@ <<"t", "sprig">> :> <<8, 1>>
 @@ <<"dust", "t">> :> <<625, 10000>> @@ <<"t", "dust">> :> <<16, 1>>
 @@ <<"smear", "t">> :> <<5, 10>> @@ <<"t", "smear">> :> <<2, 1>>
 @@ <<"quenelle", "T">> :> <<1, 1>> @@ <<"T", "quenelle">> :> <<1, 1>>

\* Fractional produce units
FractionalProduceConversions ==
    <<"wedge", "ea">> :> <<25, 100>> @@ <<"ea", "wedge">> :> <<4, 1>>
 @@ <<"half", "ea">> :> <<5, 10>> @@ <<"ea", "half">> :> <<2, 1>>
 @@ <<"quarter", "ea">> :> <<25, 100>> @@ <<"ea", "quarter">> :> <<4, 1>>
 @@ <<"slice", "ea">> :> <<625, 10000>> @@ <<"ea", "slice">> :> <<16, 1>>

\* Mutant: the two spellings of the ounce are registered as an edge.
UnitConverter_init_ounce_edge ==
    VolumeConversions
 @@ WeightConversions
 @@ CountConversions
 @@ SpecialConversions
 @@ CanConversions
 @@ ProduceConversions
 @@ ProduceWeightConversions
 @@ CountEquivalencies
 @@ CulinaryConversions
 @@ FractionalProduceConversions
 @@ <<"oz", "oz.">> :> <<1, 1>>

\* self.conversion_factors as __init__ leaves it
UnitConverter_init ==
    VolumeConversions
 @@ WeightConversions
 @@ CountConversions
 @@ SpecialConversions
 @@ CanConversions
 @@ ProduceConversions
 @@ ProduceWeightConversions
 @@ CountEquivalencies
 @@ CulinaryConversions
 @@ FractionalProduceConversions

\* The alias table built at the top of convert.
unit_aliases ==
    "T" :> "T" @@ "tbsp" :> "T" @@ "tablespoon" :> "T" @@ "tablespoons" :> "T"
 @@ "tsp" :> "t" @@ "teaspoon" :> "t" @@ "teaspoons" :> "t"
 @@ "c" :> "C" @@ "cup" :> "C" @@ "cups" :> "C"
 @@ "ounce" :> "oz." @@ "ounces" :> "oz." @@ "oz" :> "oz."
 @@ "gal" :> "Gal." @@ "gallon" :> "Gal." @@ "gallons" :> "Gal."
 @@ "qt" :> "qt." @@ "quart" :> "qt." @@ "quarts" :> "qt."
 @@ "pt" :> "pt." @@ "pint" :> "pt." @@ "pints" :> "pt."
 @@ "pound" :> "lb" @@ "pounds" :> "lb"
 @@ "each" :> "ea" @@ "eaches" :> "ea"
 @@ "doz" :> "doz." @@ "dozen" :> "doz."

\* Mutant: the tablespoon hub is tried before the teaspoon hub.
intermediates_T_first == <<"T", "t", "C", "oz.", "oz", "lb", "Gal.", "gal", "ea">>

\* The ordered hub list of the chaining loop.
intermediates == <<"t", "T", "C", "oz.", "oz", "lb", "Gal.", "gal", "ea">>

----------------------------------------------------------------------------
(* Quantities as expressions *)

\* The float quantity q, nothing applied to it yet.
Quantity(q) == [base |-> q, ops |-> <<>>]

\* quantity * factor
Mul(quantity, factor) == [quantity EXCEPT !.ops = Append(@, <<"*", factor>>)]

\* quantity / factor
Div(quantity, factor) == [quantity EXCEPT !.ops = Append(@, <<"/", factor>>)]

NoValue == [base |-> 0, ops |-> << <<"none", <<0, 1>> >> >>]

\* A convert call that returned: its value, the branch that produced it and
\* the hub used by the chaining branch.
Returned(value, route, via) ==
    [status |-> "ok", value |-> value, route |-> route, via |-> via]

\* A convert call that raised.
Raised(exception) ==
    [status |-> exception, value |-> NoValue, route |-> "none", via |-> ""]

----------------------------------------------------------------------------
(* UnitConverter.convert *)

\* unit_aliases.get(unit, unit)
normalize(unit) ==
    IF unit \in DOMAIN unit_aliases THEN unit_aliases[unit] ELSE unit

\* key in self.conversion_factors
registered(a, b) == <<a, b>> \in DOMAIN conversion_factors

RECURSIVE convert(_, _, _, _)
RECURSIVE try_intermediates(_, _, _, _, _)
RECURSIVE try_intermediates_no_raise(_, _, _, _, _)

\* Mutant: when the hubs are exhausted the quantity is returned as it came
\* instead of raising.
try_intermediates_no_raise(quantity, from_unit, to_unit, i, depth) ==
    IF i > Len(intermediates)
    THEN Returned(quantity, "chain", "")
    ELSE LET intermediate == intermediates[i]
             next == try_intermediates_no_raise(quantity, from_unit, to_unit, i + 1, depth)
         IN  IF /\ registered(from_unit, intermediate) \/ registered(intermediate, from_unit)
                /\ registered(intermediate, to_unit) \/ registered(to_unit, intermediate)
             THEN LET temp == convert(quantity, from_unit, intermediate, depth + 1)
                  IN  IF temp.status = "ValueError" THEN next
                      ELSE IF temp.status # "ok" THEN temp
                      ELSE LET last == convert(temp.value, intermediate, to_unit, depth + 1)
                           IN  IF last.status = "ValueError" THEN next
                               ELSE IF last.status # "ok" THEN last
                               ELSE Returned(last.value, "chain", intermediate)
             ELSE next

\* The chaining loop from its i-th hub on; from_unit and to_unit are already
\* normalized.  A ValueError raised by either leg is caught and the loop
\* goes on to the next hub; any other exception leaves convert.
try_intermediates(quantity, from_unit, to_unit, i, depth) ==
    IF i > Len(intermediates)
    THEN Raised("ValueError")
    ELSE LET intermediate == intermediates[i]
             next == try_intermediates(quantity, from_unit, to_unit, i + 1, depth)
         IN  IF /\ registered(from_unit, intermediate) \/ registered(intermediate, from_unit)
                /\ registered(intermediate, to_unit) \/ registered(to_unit, intermediate)
             THEN LET temp == convert(quantity, from_unit, intermediate, depth + 1)
                  IN  IF temp.status = "ValueError" THEN next
                      ELSE IF temp.status # "ok" THEN temp
                      ELSE LET last == convert(temp.value, intermediate, to_unit, depth + 1)
                           IN  IF last.status = "ValueError" THEN next
                               ELSE IF last.status # "ok" THEN last
                               ELSE Returned(last.value, "chain", intermediate)
             ELSE next

\* Mutant: the identity short-circuit is missing.
convert_no_identity(quantity, from_unit, to_unit, depth) ==
    LET from == normalize(from_unit)
        to == normalize(to_unit)
    IN  IF depth > MaxDepth THEN Raised("RecursionError")
        ELSE IF registered(from, to)
        THEN Returned(Mul(quantity, conversion_factors[<<from, to>>]), "direct", "")
        ELSE IF registered(to, from)
        THEN Returned(Div(quantity, conversion_factors[<<to, from>>]), "reverse", "")
        ELSE try_intermediates(quantity, from, to, 1, depth)

\* Mutant: only the source unit is normalized.
convert_target_as_given(quantity, from_unit, to_unit, depth) ==
    LET from == normalize(from_unit)
        to == to_unit
    IN  IF depth > MaxDepth THEN Raised("RecursionError")
        ELSE IF from = to THEN Returned(quantity, "identity", "")
        ELSE IF registered(from, to)
        THEN Returned(Mul(quantity, conversion_factors[<<from, to>>]), "direct", "")
        ELSE IF registered(to, from)
        THEN Returned(Div(quantity, conversion_factors[<<to, from>>]), "reverse", "")
        ELSE try_intermediates(quantity, from, to, 1, depth)

\* Mutant: only the target unit is normalized.
convert_source_as_given(quantity, from_unit, to_unit, depth) ==
    LET from == from_unit
        to == normalize(to_unit)
    IN  IF depth > MaxDepth THEN Raised("RecursionError")
        ELSE IF from = to THEN Returned(quantity, "identity", "")
        ELSE IF registered(from, to)
        THEN Returned(Mul(quantity, conversion_factors[<<from, to>>]), "direct", "")
        ELSE IF registered(to, from)
        THEN Returned(Div(quantity, conversion_factors[<<to, from>>]), "reverse", "")
        ELSE try_intermediates(quantity, from, to, 1, depth)

\* convert(quantity, from_unit, to_unit), entered at nesting level depth.
convert(quantity, from_unit, to_unit, depth) ==
    LET from == normalize(from_unit)
        to == normalize(to_unit)
    IN  IF depth > MaxDepth THEN Raised("RecursionError")
        ELSE IF from = to THEN Returned(quantity, "identity", "")
        ELSE IF registered(from, to)
        THEN Returned(Mul(quantity, conversion_factors[<<from, to>>]), "direct", "")
        ELSE IF registered(to, from)
        THEN Returned(Div(quantity, conversion_factors[<<to, from>>]), "reverse", "")
        ELSE try_intermediates(quantity, from, to, 1, depth)

----------------------------------------------------------------------------
(* Arithmetic on exact rationals <<numerator, denominator>>, denominator > 0 *)

RECURSIVE GCD(_, _)
GCD(a, b) == IF b = 0 THEN a ELSE GCD(b, a % b)

Abs(n) == IF n < 0 THEN -n ELSE n

Reduce(r) ==
    LET g == GCD(Abs(r[1]), r[2])
    IN  <<r[1] \div g, r[2] \div g>>

RatMul(r, s) == Reduce(<<r[1] * s[1], r[2] * s[2]>>)

\* r / s, s # 0
RatDiv(r, s) ==
    IF s[1] > 0 THEN Reduce(<<r[1] * s[2], r[2] * s[1]>>)
    ELSE Reduce(<<-(r[1] * s[2]), r[2] * (-s[1])>>)

RatAdd(r, s) == Reduce(<<r[1] * s[2] + s[1] * r[2], r[2] * s[2]>>)

RECURSIVE IsPowerOfTwo(_)
IsPowerOfTwo(n) == n = 1 \/ (n % 2 = 0 /\ IsPowerOfTwo(n \div 2))

\* The number a quantity expression evaluates to.
RECURSIVE ApplyOps(_, _, _)
ApplyOps(r, ops, i) ==
    IF i > Len(ops) THEN r
    ELSE IF ops[i][1] = "*" THEN ApplyOps(RatMul(r, ops[i][2]), ops, i + 1)
    ELSE ApplyOps(RatDiv(r, ops[i][2]), ops, i + 1)

Value(quantity) == ApplyOps(<<quantity.base, 1>>, quantity.ops, 1)

\* c cents as a number of dollars
Cents(c) == Reduce(<<c, 100>>)

\* A rational that is a binary fraction, hence a double (the numbers here
\* are far below 2^53).
Dyadic(r) == IsPowerOfTwo(Reduce(r)[2])

\* The double computed for a quantity expression is the number itself when
\* the base, every factor and every intermediate result are binary fractions.
RECURSIVE ExactOps(_, _, _)
ExactOps(r, ops, i) ==
    IF i > Len(ops) THEN Dyadic(r)
    ELSE /\ Dyadic(r)
         /\ Dyadic(ops[i][2])
         /\ ExactOps(IF ops[i][1] = "*" THEN RatMul(r, ops[i][2])
                                         ELSE RatDiv(r, ops[i][2]), ops, i + 1)

Exact(quantity) == ExactOps(<<quantity.base, 1>>, quantity.ops, 1)

\* round(x, 2), in cents.  The built-in rounds the binary value of the
\* double to the nearest cent and an exact tie to the even cent.  exact
\* says the double is the number x itself.  Otherwise the double lies
\* within rounding error of x, on either side, so when x is a decimal tie
\* both neighbouring cents are possible outcomes.
round2(x, exact) ==
    LET r == Reduce(x)
        floor == (100 * r[1]) \div r[2]
        rest == (100 * r[1]) % r[2]
    IN  IF 2 * rest < r[2] THEN {floor}
        ELSE IF 2 * rest > r[2] THEN {floor + 1}
        ELSE IF exact
        THEN {IF floor % 2 = 0 THEN floor ELSE floor + 1}
        ELSE {floor, floor + 1}

\* 0 < x < 0.01
SubCent(x) == x[1] > 0 /\ 100 * x[1] < x[2]

\* x < 0.01
BelowCent(x) == 100 * x[1] < x[2]

----------------------------------------------------------------------------
(* DatabaseManager: cost calculation *)

NULL == <<>>

\* A table with no row
NoLines == [name \in {} |-> name]

\* WHERE recipe_name = ? (WHERE plate_name = ?): the lines of one recipe
\* (plate), by ingredient name.
lines_of(table, owner) == IF owner \in DOMAIN table THEN table[owner] ELSE NoLines

\* The order in which the joined rows are fetched.
IngredientNames == <<"basil", "flour">>

\* SELECT ... FROM lines JOIN ingredients i ON lines.ingredient_name = i.name:
\* a line whose ingredient has no row in ingredients is not in the result.
RECURSIVE Join(_, _, _)
Join(lines, ingredients, i) ==
    IF i > Len(IngredientNames) THEN <<>>
    ELSE LET name == IngredientNames[i]
             rest == Join(lines, ingredients, i + 1)
         IN  IF name \in DOMAIN lines /\ name \in DOMAIN ingredients
             THEN <<[ingredient_name |-> name,
                     quantity |-> lines[name].quantity,
                     unit |-> lines[name].unit,
                     cost_per_recipe_unit |-> ingredients[name].cost_per_recipe_unit,
                     recipe_unit |-> ingredients[name].recipe_unit]>> \o rest
             ELSE rest

\* converted_quantity of a row: convert is called only when the stored unit
\* and the recipe unit are different strings.
converted_quantity(row) ==
    IF row.unit # row.recipe_unit
    THEN convert(Quantity(row.quantity), row.unit, row.recipe_unit, 0)
    ELSE Returned(Quantity(row.quantity), "same", "")

\* The body of the try block of both cost loops: the cents a row is priced
\* at once its quantity is converted.
rounded_cost(row, converted) ==
    LET ingredient_cost == RatMul(row.cost_per_recipe_unit, Value(converted))
        exact == Dyadic(row.cost_per_recipe_unit) /\ Exact(converted)
    IN  IF SubCent(ingredient_cost) THEN {1} ELSE round2(ingredient_cost, exact)

\* recipe_row without the except clause: the converter's ValueError leaves
\* the loop.
recipe_row_reraise(row) ==
    LET converted == converted_quantity(row)
    IN  IF converted.status = "ok"
        THEN [status |-> "ok", costs |-> rounded_cost(row, converted.value)]
        ELSE [status |-> converted.status, costs |-> {}]

\* One iteration of the loop of calculate_recipe_cost: the possible prices
\* of the row, or the exception that leaves the loop.
recipe_row(row) ==
    LET converted == converted_quantity(row)
    IN  IF converted.status = "ok"
        THEN [status |-> "ok", costs |-> rounded_cost(row, converted.value)]
        ELSE IF converted.status = "ValueError"
        THEN LET ingredient_cost ==
                     RatMul(row.cost_per_recipe_unit, <<row.quantity, 1>>)
             IN  [status |-> "ok",
                  costs |-> IF BelowCent(ingredient_cost) THEN {1}
                            ELSE round2(ingredient_cost,
                                        Dyadic(row.cost_per_recipe_unit))]
        ELSE [status |-> converted.status, costs |-> {}]

\* One iteration of the loop of calculate_plate_cost: every exception is
\* caught, the row is listed at 0.0 and nothing is added to the total.
plate_row(row) ==
    LET converted == converted_quantity(row)
    IN  IF converted.status = "ok"
        THEN [status |-> "ok", costs |-> rounded_cost(row, converted.value)]
        ELSE [status |-> "ok", costs |-> {0}]

Entry(row, cost) ==
    [name |-> row.ingredient_name, quantity |-> row.quantity,
     unit |-> row.unit, cost |-> cost]

\* The breakdowns a loop can build from the rows i.. on; priced(row) is
\* one iteration.  The empty set when an iteration raises.
RECURSIVE RecipeBreakdowns(_, _)
RecipeBreakdowns(rows, i) ==
    IF i > Len(rows) THEN {<<>>}
    ELSE {<<Entry(rows[i], c)>> \o rest :
              c \in recipe_row(rows[i]).costs, rest \in RecipeBreakdowns(rows, i + 1)}

RECURSIVE PlateBreakdowns(_, _)
RECURSIVE PlateBreakdowns_drop_failed(_, _)

\* Mutant: a row whose conversion raised is left out of the breakdown.
PlateBreakdowns_drop_failed(rows, i) ==
    IF i > Len(rows) THEN {<<>>}
    ELSE IF converted_quantity(rows[i]).status # "ok"
    THEN PlateBreakdowns_drop_failed(rows, i + 1)
    ELSE {<<Entry(rows[i], c)>> \o rest :
              c \in plate_row(rows[i]).costs,
              rest \in PlateBreakdowns_drop_failed(rows, i + 1)}

\* The breakdowns the loop of calculate_plate_cost can build from the rows
\* i.. on.
PlateBreakdowns(rows, i) ==
    IF i > Len(rows) THEN {<<>>}
    ELSE {<<Entry(rows[i], c)>> \o rest :
              c \in plate_row(rows[i]).costs, rest \in PlateBreakdowns(rows, i + 1)}

\* The exception that leaves the recipe loop, "ok" when none does.
RECURSIVE RecipeLoopStatus(_, _)
RecipeLoopStatus(rows, i) ==
    IF i > Len(rows) THEN "ok"
    ELSE IF recipe_row(rows[i]).status # "ok" THEN recipe_row(rows[i]).status
    ELSE RecipeLoopStatus(rows, i + 1)

\* total_cost += rounded_cost over the breakdown, in cents.  Each addend is
\* the double nearest to a whole number of cents, so round(total_cost, 2)
\* is the sum of the cents.
RECURSIVE SumCosts(_, _)
SumCosts(breakdown, i) ==
    IF i > Len(breakdown) THEN 0 ELSE breakdown[i].cost + SumCosts(breakdown, i + 1)

\* Every addend of the total is a binary fraction of a dollar.
RECURSIVE ExactCosts(_, _)
ExactCosts(breakdown, i) ==
    i > Len(breakdown)
        \/ (Dyadic(Cents(breakdown[i].cost)) /\ ExactCosts(breakdown, i + 1))

\* Default prep factor of a recipe whose prep_factor is NULL.
DefaultPrepFactor == <<10, 100>>

\* The q_factor calculate_plate_cost applies.
DefaultQFactor == <<4, 100>>

\* calculate_recipe_cost with the prep factor cost added to the total a
\* second time.
calculate_recipe_cost_prep_twice(database, recipe_name) ==
    IF recipe_name \notin DOMAIN database.recipes
    THEN {[status |-> "ValueError", message |-> "not found"]}
    ELSE
    LET servings == database.recipes[recipe_name].servings
        prep_factor == IF database.recipes[recipe_name].prep_factor = NULL
                       THEN DefaultPrepFactor
                       ELSE database.recipes[recipe_name].prep_factor
        rows == Join(lines_of(database.recipe_ingredients, recipe_name),
                     database.ingredients, 1)
    IN  IF RecipeLoopStatus(rows, 1) # "ok"
        THEN {[status |-> RecipeLoopStatus(rows, 1), message |-> "convert"]}
        ELSE IF servings = 0
        THEN {[status |-> "ZeroDivisionError", message |-> "servings"]}
        ELSE UNION {
            LET total_cost == SumCosts(ingredient_costs, 1)
                prep_factor_cost == RatMul(Cents(total_cost), prep_factor)
                total_with_prep == RatAdd(RatAdd(Cents(total_cost), prep_factor_cost),
                                          prep_factor_cost)
                cost_per_serving == RatDiv(total_with_prep, <<servings, 1>>)
                exact == ExactCosts(ingredient_costs, 1) /\ Dyadic(prep_factor)
            IN  {[status |-> "ok",
                  recipe_name |-> recipe_name,
                  servings |-> servings,
                  ingredient_cost |-> total_cost,
                  prep_factor |-> prep_factor,
                  prep_factor_cost |-> p,
                  total_cost |-> t,
                  cost_per_serving |-> s,
                  ingredient_breakdown |-> ingredient_costs] :
                     p \in round2(prep_factor_cost, exact),
                     t \in round2(total_with_prep, exact),
                     s \in round2(cost_per_serving, exact /\ Dyadic(cost_per_serving))}
            : ingredient_costs \in RecipeBreakdowns(rows, 1)}

\* calculate_recipe_cost(recipe_name) over the rows of database: the set of
\* results it can return or raise.
calculate_recipe_cost(database, recipe_name) ==
    IF recipe_name \notin DOMAIN database.recipes
    THEN {[status |-> "ValueError", message |-> "not found"]}
    ELSE
    LET servings == database.recipes[recipe_name].servings
        prep_factor == IF database.recipes[recipe_name].prep_factor = NULL
                       THEN DefaultPrepFactor
                       ELSE database.recipes[recipe_name].prep_factor
        rows == Join(lines_of(database.recipe_ingredients, recipe_name),
                     database.ingredients, 1)
    IN  IF RecipeLoopStatus(rows, 1) # "ok"
        THEN {[status |-> RecipeLoopStatus(rows, 1), message |-> "convert"]}
        ELSE IF servings = 0
        THEN {[status |-> "ZeroDivisionError", message |-> "servings"]}
        ELSE UNION {
            LET total_cost == SumCosts(ingredient_costs, 1)
                prep_factor_cost == RatMul(Cents(total_cost), prep_factor)
                total_with_prep == RatAdd(Cents(total_cost), prep_factor_cost)
                cost_per_serving == RatDiv(total_with_prep, <<servings, 1>>)
                exact == ExactCosts(ingredient_costs, 1) /\ Dyadic(prep_factor)
            IN  {[status |-> "ok",
                  recipe_name |-> recipe_name,
                  servings |-> servings,
                  ingredient_cost |-> total_cost,
                  prep_factor |-> prep_factor,
                  prep_factor_cost |-> p,
                  total_cost |-> t,
                  cost_per_serving |-> s,
                  ingredient_breakdown |-> ingredient_costs] :
                     p \in round2(prep_factor_cost, exact),
                     t \in round2(total_with_prep, exact),
                     s \in round2(cost_per_serving, exact /\ Dyadic(cost_per_serving))}
            : ingredient_costs \in RecipeBreakdowns(rows, 1)}

\* calculate_plate_cost(plate_name) over the rows of database.
calculate_plate_cost(database, plate_name) ==
    IF plate_name \notin DOMAIN database.plates
    THEN {[status |-> "ValueError", message |-> "not found"]}
    ELSE
    LET rows == Join(lines_of(database.plate_ingredients, plate_name),
                     database.ingredients, 1)
    IN  UNION {
            LET total_ingredient_cost == SumCosts(ingredient_costs, 1)
                q_factor_cost == RatMul(Cents(total_ingredient_cost), DefaultQFactor)
                total_with_q == RatAdd(Cents(total_ingredient_cost), q_factor_cost)
                exact == ExactCosts(ingredient_costs, 1) /\ Dyadic(DefaultQFactor)
            IN  {[status |-> "ok",
                  plate_name |-> plate_name,
                  ingredient_cost |-> total_ingredient_cost,
                  q_factor |-> DefaultQFactor,
                  q_factor_cost |-> q,
                  total_cost |-> t,
                  ingredient_breakdown |-> ingredient_costs] :
                     q \in round2(q_factor_cost, exact),
                     t \in round2(total_with_q, exact)}
            : ingredient_costs \in PlateBreakdowns(rows, 1)}

----------------------------------------------------------------------------
(* web_app: plate_detail *)

\* The order in which the plate_recipes rows are fetched.
RecipeNames == <<"R", "S">>

\* The response of a page handler: the template rendered with its data, or
\* a redirect with the flashed message.
Rendered(data) == [status |-> "render", data |-> data]

Redirected(flash) == [status |-> "redirect", flash |-> flash]

\* plate['q_factor']: the stored q_factor, 0.04 when the column is NULL.
plate_q_factor(row) == IF row.q_factor = NULL THEN <<4, 100>> ELSE row.q_factor

\* The entry of plate_recipes built for one row: the cost per serving
\* times the quantity when both quantity and unit are set (whatever the
\* unit), times the servings of the row otherwise.
plate_recipe_entry(name, row, recipe_cost_data) ==
    IF row.quantity # NULL /\ row.quantity[1] # 0 /\ row.unit # ""
    THEN [name |-> name, quantity |-> row.quantity, unit |-> row.unit,
          servings |-> row.servings,
          cost_per_serving |-> recipe_cost_data.cost_per_serving,
          total_cost |-> RatMul(Cents(recipe_cost_data.cost_per_serving), row.quantity)]
    ELSE [name |-> name, quantity |-> NULL, unit |-> "",
          servings |-> row.servings,
          cost_per_serving |-> recipe_cost_data.cost_per_serving,
          total_cost |-> RatMul(Cents(recipe_cost_data.cost_per_serving),
                                <<row.servings, 1>>)]

\* The loop over the plate_recipes rows of the plate, from row i on: the
\* lists it can build, or the exception calculate_recipe_cost raises.
RECURSIVE attached_recipes(_, _, _)
attached_recipes(database, plate_name, i) ==
    IF i > Len(RecipeNames) THEN {[status |-> "ok", plate_recipes |-> <<>>]}
    ELSE LET recipe_name == RecipeNames[i]
             rows == lines_of(database.plate_recipes, plate_name)
             rest == attached_recipes(database, plate_name, i + 1)
         IN  IF recipe_name \notin DOMAIN rows THEN rest
             ELSE UNION {
                 IF recipe_cost_data.status # "ok"
                 THEN {[status |-> recipe_cost_data.status, plate_recipes |-> <<>>]}
                 ELSE {IF r.status # "ok" THEN r
                       ELSE [status |-> "ok",
                             plate_recipes |->
                                 <<plate_recipe_entry(recipe_name, rows[recipe_name],
                                                      recipe_cost_data)>>
                                     \o r.plate_recipes] : r \in rest}
                 : recipe_cost_data \in calculate_recipe_cost(database, recipe_name)}

\* total_recipe_cost += recipe_total over the list
RECURSIVE SumTotals(_, _)
SumTotals(plate_recipes, i) ==
    IF i > Len(plate_recipes) THEN <<0, 1>>
    ELSE RatAdd(plate_recipes[i].total_cost, SumTotals(plate_recipes, i + 1))

\* direct_ingredient_cost taken with the surcharge of calculate_plate_cost
direct_ingredient_cost_with_q(ingredient_cost_data) ==
    Cents(ingredient_cost_data.total_cost)

\* direct_ingredient_cost = ingredient_cost_data['ingredient_cost']
direct_ingredient_cost(ingredient_cost_data) ==
    Cents(ingredient_cost_data.ingredient_cost)

\* cost_data with the Q-factor applied to the direct ingredients only
plate_cost_data_q_on_direct(total_recipe_cost, ingredient_cost_data, q_factor) ==
    LET direct == direct_ingredient_cost(ingredient_cost_data)
        subtotal == RatAdd(total_recipe_cost, direct)
        q_factor_cost == RatMul(direct, q_factor)
    IN  [recipe_cost |-> total_recipe_cost,
         ingredient_cost |-> direct,
         subtotal |-> subtotal,
         q_factor |-> q_factor,
         q_factor_cost |-> q_factor_cost,
         total_cost |-> RatAdd(subtotal, q_factor_cost),
         ingredient_breakdown |-> ingredient_cost_data.ingredient_breakdown]

\* cost_data: recipe costs plus direct ingredient costs, then the Q-factor.
\* The amounts are not rounded; they are the numbers the float expressions
\* stand for.
plate_cost_data(total_recipe_cost, ingredient_cost_data, q_factor) ==
    LET direct == direct_ingredient_cost(ingredient_cost_data)
        subtotal == RatAdd(total_recipe_cost, direct)
        q_factor_cost == RatMul(subtotal, q_factor)
    IN  [recipe_cost |-> total_recipe_cost,
         ingredient_cost |-> direct,
         subtotal |-> subtotal,
         q_factor |-> q_factor,
         q_factor_cost |-> q_factor_cost,
         total_cost |-> RatAdd(subtotal, q_factor_cost),
         ingredient_breakdown |-> ingredient_cost_data.ingredient_breakdown]

\* plate_detail(plate_name) over the rows of database: the responses it can
\* give.  The line listing and the allergen list of the page, which take no
\* part in the costs, are left out.
plate_detail(database, plate_name) ==
    IF plate_name \notin DOMAIN database.plates
    THEN {Redirected("not found")}
    ELSE UNION {
        IF loop.status # "ok" THEN {Redirected("Error loading plate")}
        ELSE {Rendered([plate |-> [name |-> plate_name,
                                   q_factor |-> plate_q_factor(database.plates[plate_name])],
                        plate_recipes |-> loop.plate_recipes,
                        cost_data |->
                            plate_cost_data(SumTotals(loop.plate_recipes, 1),
                                            ingredient_cost_data,
                                            plate_q_factor(database.plates[plate_name]))]) :
                  ingredient_cost_data \in calculate_plate_cost(database, plate_name)}
        : loop \in attached_recipes(database, plate_name, 1)}

----------------------------------------------------------------------------
(* web_app: scale_recipe *)

\* a // b, b # 0
FloorDiv(a, b) == IF b > 0 THEN a \div b ELSE (-a) \div (-b)

\* The whole units needed taken as servings // base, rounding down
units_needed_floor(servings, base) == FloorDiv(servings, base)

\* units_needed = (servings + base - 1) // base, the ceiling division
units_needed(servings, base) == FloorDiv(servings + base - 1, base)

\* The loop over get_recipe_ingredients (ORDER BY ingredient_name), from
\* line i on: quantity * scale_factor rounded to hundredths.
RECURSIVE scaled_ingredients(_, _, _)
scaled_ingredients(lines, scale_factor, i) ==
    IF i > Len(IngredientNames) THEN {<<>>}
    ELSE LET name == IngredientNames[i]
             rest == scaled_ingredients(lines, scale_factor, i + 1)
         IN  IF name \notin DOMAIN lines THEN rest
             ELSE {<<[name |-> name,
                      original_quantity |-> lines[name].quantity,
                      scaled_quantity |-> q,
                      unit |-> lines[name].unit]>> \o r :
                      q \in round2(RatMul(<<lines[name].quantity, 1>>, scale_factor),
                                   Dyadic(scale_factor)),
                      r \in rest}

\* The branch of a whole-unit recipe: whole batches are made, the cost
\* scales by their number.  A division by zero servings ends in the except
\* clause.
scale_whole_unit(cost_data, servings, lines) ==
    LET units == units_needed(servings, cost_data.servings)
        actual_servings == units * cost_data.servings
        scale_factor == <<units, 1>>
        scaled_ingredient_cost == RatMul(Cents(cost_data.ingredient_cost), scale_factor)
        scaled_prep_cost == RatMul(scaled_ingredient_cost, cost_data.prep_factor)
        scaled_total == RatAdd(scaled_ingredient_cost, scaled_prep_cost)
        exact == Dyadic(Cents(cost_data.ingredient_cost)) /\ Dyadic(cost_data.prep_factor)
    IN  IF actual_servings = 0 THEN {Redirected("Error scaling recipe")}
        ELSE {Rendered([scaled_data |->
                            [original_servings |-> cost_data.servings,
                             new_servings |-> servings,
                             actual_servings |-> actual_servings,
                             units_needed |-> units,
                             is_whole_unit |-> TRUE,
                             scale_factor |-> scale_factor,
                             original_cost |-> cost_data.total_cost,
                             scaled_ingredient_cost |-> i,
                             prep_factor |-> cost_data.prep_factor,
                             prep_factor_cost |-> p,
                             scaled_cost |-> c,
                             cost_per_serving |-> s,
                             waste_servings |-> actual_servings - servings,
                             scaled_ingredients |-> ings],
                        cost_data |-> cost_data]) :
                  i \in round2(scaled_ingredient_cost,
                               Dyadic(Cents(cost_data.ingredient_cost))),
                  p \in round2(scaled_prep_cost, exact),
                  c \in round2(scaled_total, exact),
                  s \in round2(RatDiv(scaled_total, <<actual_servings, 1>>),
                               exact /\ Dyadic(RatDiv(scaled_total, <<actual_servings, 1>>))),
                  ings \in scaled_ingredients(lines, scale_factor, 1)}

\* The branch of a recipe that scales smoothly: scale_factor = servings /
\* base servings.
scale_smoothly(cost_data, servings, lines) ==
    LET scale_factor == RatDiv(<<servings, 1>>, <<cost_data.servings, 1>>)
        scaled_ingredient_cost == RatMul(Cents(cost_data.ingredient_cost), scale_factor)
        scaled_prep_cost == RatMul(scaled_ingredient_cost, cost_data.prep_factor)
        scaled_total == RatAdd(scaled_ingredient_cost, scaled_prep_cost)
        exact_scaled == Dyadic(Cents(cost_data.ingredient_cost)) /\ Dyadic(scale_factor)
        exact == exact_scaled /\ Dyadic(cost_data.prep_factor)
    IN  {Rendered([scaled_data |->
                       [original_servings |-> cost_data.servings,
                        new_servings |-> servings,
                        is_whole_unit |-> FALSE,
                        scale_factor |-> scale_factor,
                        original_cost |-> cost_data.total_cost,
                        scaled_ingredient_cost |-> i,
                        prep_factor |-> cost_data.prep_factor,
                        prep_factor_cost |-> p,
                        scaled_cost |-> c,
                        cost_per_serving |-> s,
                        scaled_ingredients |-> ings],
                   cost_data |-> cost_data]) :
             i \in round2(scaled_ingredient_cost, exact_scaled),
             p \in round2(scaled_prep_cost, exact),
             c \in round2(scaled_total, exact),
             s \in round2(RatDiv(scaled_total, <<servings, 1>>),
                          exact /\ Dyadic(RatDiv(scaled_total, <<servings, 1>>))),
             ings \in scaled_ingredients(lines, scale_factor, 1)}

\* scale_recipe(recipe_name) with the request argument servings, over the
\* rows of database: the responses it can give.  servings = 0 also stands
\* for a missing or non-integer argument.  The scaled instruction text is
\* left out.
scale_recipe(database, recipe_name, servings) ==
    IF servings = 0 THEN {Redirected("Please specify number of servings")}
    ELSE IF recipe_name \notin DOMAIN database.recipes THEN {Redirected("not found")}
    ELSE UNION {
        IF cost_data.status # "ok" THEN {Redirected("Error scaling recipe")}
        ELSE IF database.recipes[recipe_name].whole_unit
        THEN scale_whole_unit(cost_data, servings,
                              lines_of(database.recipe_ingredients, recipe_name))
        ELSE scale_smoothly(cost_data, servings,
                            lines_of(database.recipe_ingredients, recipe_name))
        : cost_data \in calculate_recipe_cost(database, recipe_name)}

----------------------------------------------------------------------------
(* rms_modern: the scale command of the menu *)

\* What the command printed, or the exception that left it.
Printed(data) == [status |-> "printed", data |-> data]

\* RecipeManagementSystem.scale_recipe with the recipe name and the integer
\* typed for the new number of servings, over the rows of database.  A
\* ValueError of calculate_recipe_cost is caught and reported; a division
\* by zero is not caught.  The amounts are the doubles before they are
\* formatted.
RecipeManagementSystem_scale_recipe(database, recipe_name, new_servings) ==
    {IF cost_data.status = "ValueError" THEN Printed([error |-> "Error scaling recipe"])
     ELSE IF cost_data.status # "ok"
     THEN [status |-> cost_data.status, message |-> cost_data.message]
     ELSE LET scale_factor == RatDiv(<<new_servings, 1>>, <<cost_data.servings, 1>>)
              scaled_cost == RatMul(Cents(cost_data.total_cost), scale_factor)
          IN  IF new_servings = 0
              THEN [status |-> "ZeroDivisionError", message |-> "new_servings"]
              ELSE Printed([original_servings |-> cost_data.servings,
                            new_servings |-> new_servings,
                            scale_factor |-> scale_factor,
                            total_cost |-> scaled_cost,
                            cost_per_serving |->
                                RatDiv(scaled_cost, <<new_servings, 1>>)])
     : cost_data \in calculate_recipe_cost(database, recipe_name)}

----------------------------------------------------------------------------
(* Inputs *)

\* Every unit spelling the tables mention, and two they do not.
Units ==
    {k[1] : k \in DOMAIN UnitConverter_init} \cup {k[2] : k \in DOMAIN UnitConverter_init}
        \cup DOMAIN unit_aliases \cup {unit_aliases[a] : a \in DOMAIN unit_aliases}
        \cup {intermediates[i] : i \in 1..Len(intermediates)}
        \cup {"zzz", "stalk"}

Quantities == 0..MaxQuantity

\* Units stored on recipe and plate lines: the recipe unit itself, an alias
\* of it, a unit with a factor below one, and one with no path.
LineUnits == {"C", "cups", "T", "ea-tomato"}

\* Canonical recipe units of the priced ingredients.
RecipeUnits == {"oz.", "C"}

\* cost_per_recipe_unit: 1/256, 1/8 and 1/2 of a dollar.
Costs == {<<1, 256>>, <<1, 8>>, <<1, 2>>}

Servings == {-1, 0, 4}

PrepFactors == {NULL, <<1, 4>>}

\* q_factor column of plates
QFactors == {NULL, <<1, 4>>}

\* Functions from a subset of S to T
PartialFunctions(S, T) == UNION {[D -> T] : D \in SUBSET S}

NameSet == {IngredientNames[i] : i \in 1..Len(IngredientNames)}

IngredientTables ==
    PartialFunctions(NameSet, [cost_per_recipe_unit : Costs, recipe_unit : RecipeUnits])

LineTables ==
    PartialFunctions(NameSet, [quantity : Quantities, unit : LineUnits])

RecipeTables ==
    PartialFunctions({"R"}, [servings : Servings, prep_factor : PrepFactors])

PlateTables == PartialFunctions({"P"}, [q_factor : QFactors])

\* The rows calculate_recipe_cost can find.
RecipeDatabases ==
    [recipes : RecipeTables, ingredients : IngredientTables,
     recipe_ingredients : [{"R"} -> LineTables],
     plates : {NoLines}, plate_ingredients : {NoLines}, plate_recipes : {NoLines}]

\* The rows calculate_plate_cost can find.
PlateDatabases ==
    [recipes : {NoLines}, ingredients : IngredientTables,
     recipe_ingredients : {NoLines},
     plates : PlateTables, plate_ingredients : [{"P"} -> LineTables],
     plate_recipes : {NoLines}]

\* The rows plate_detail can find: two priced ingredients, up to two
\* recipes of flour, a plate with direct lines and attached recipes.
DetailIngredientTables ==
    {("basil" :> [cost_per_recipe_unit |-> <<1, 2>>, recipe_unit |-> "oz."])
         @@ ("flour" :> [cost_per_recipe_unit |-> c, recipe_unit |-> "oz."]) :
         c \in {<<1, 8>>, <<1, 2>>}}

DetailRecipeTables ==
    PartialFunctions({"R", "S"}, [servings : {0, 4}, prep_factor : {NULL}])

DetailRecipeLines ==
    [{"R", "S"} -> PartialFunctions({"flour"}, [quantity : {1, 2}, unit : {"C"}])]

DetailPlateLines ==
    [{"P"} -> PartialFunctions(NameSet, [quantity : {1}, unit : {"C"}])]

\* A plate_recipes row: servings only; a quantity in servings; a quantity of
\* zero, which counts as not set.
AttachedRows ==
    {[servings |-> 2, quantity |-> NULL, unit |-> ""],
     [servings |-> 1, quantity |-> <<3, 1>>, unit |-> "servings"],
     [servings |-> 1, quantity |-> <<0, 1>>, unit |-> "servings"]}

DetailDatabases ==
    [recipes : DetailRecipeTables, ingredients : DetailIngredientTables,
     recipe_ingredients : DetailRecipeLines,
     plates : PlateTables, plate_ingredients : DetailPlateLines,
     plate_recipes : [{"P"} -> PartialFunctions({"R", "S"}, AttachedRows)]]

\* The rows scale_recipe can find: a recipe of up to two lines in cups,
\* ingredients priced per ounce, base servings that do and do not divide
\* the targets.
ScaleRecipeTables ==
    PartialFunctions({"R"}, [servings : {-1, 0, 3, 8}, prep_factor : {NULL},
                             whole_unit : BOOLEAN])

ScaleDatabases ==
    [recipes : ScaleRecipeTables,
     ingredients : PartialFunctions(NameSet, [cost_per_recipe_unit : {<<1, 2>>},
                                              recipe_unit : {"oz."}]),
     recipe_ingredients :
         [{"R"} -> PartialFunctions(NameSet, [quantity : {1, 2}, unit : {"C"}])],
     plates : {NoLines}, plate_ingredients : {NoLines}, plate_recipes : {NoLines}]

\* The servings argument of the request
Targets == -1..MaxTarget

NoCall == [op |-> "none"]
NoResult == [status |-> "none"]
EmptyDb ==
    [recipes |-> NoLines, ingredients |-> NoLines, recipe_ingredients |-> NoLines,
     plates |-> NoLines, plate_ingredients |-> NoLines, plate_recipes |-> NoLines]

----------------------------------------------------------------------------
(* Operations *)

Init ==
    /\ conversion_factors = UnitConverter_init
    /\ db = EmptyDb
    /\ pc = "idle"
    /\ call = NoCall
    /\ result = NoResult

\* convert keeping what it found: a direct conversion asked under other
\* spellings is registered under them.
Convert_memoize(quantity, from_unit, to_unit) ==
    /\ pc = "idle"
    /\ call' = [op |-> "convert", quantity |-> quantity,
                from_unit |-> from_unit, to_unit |-> to_unit]
    /\ result' = convert(Quantity(quantity), from_unit, to_unit, 0)
    /\ pc' = "done"
    /\ conversion_factors' =
           IF result'.status = "ok" /\ result'.route = "direct"
           THEN (<<from_unit, to_unit>> :>
                     conversion_factors[<<normalize(from_unit), normalize(to_unit)>>])
                    @@ conversion_factors
           ELSE conversion_factors
    /\ UNCHANGED db

\* A caller invokes converter.convert(quantity, from_unit, to_unit).
Convert(quantity, from_unit, to_unit) ==
    /\ pc = "idle"
    /\ call' = [op |-> "convert", quantity |-> quantity,
                from_unit |-> from_unit, to_unit |-> to_unit]
    /\ result' = convert(Quantity(quantity), from_unit, to_unit, 0)
    /\ pc' = "done"
    /\ UNCHANGED <<conversion_factors, db>>

\* A caller invokes db.calculate_recipe_cost(recipe_name) while the
\* database holds the rows of database.
CalculateRecipeCost(recipe_name, database) ==
    /\ pc = "idle"
    /\ db' = database
    /\ call' = [op |-> "calculate_recipe_cost", name |-> recipe_name]
    /\ result' \in calculate_recipe_cost(database, recipe_name)
    /\ pc' = "done"
    /\ UNCHANGED conversion_factors

\* A caller invokes db.calculate_plate_cost(plate_name) while the database
\* holds the rows of database.
CalculatePlateCost(plate_name, database) ==
    /\ pc = "idle"
    /\ db' = database
    /\ call' = [op |-> "calculate_plate_cost", name |-> plate_name]
    /\ result' \in calculate_plate_cost(database, plate_name)
    /\ pc' = "done"
    /\ UNCHANGED conversion_factors

\* A client requests /plate/<plate_name> while the database holds the rows
\* of database.
PlateDetail(plate_name, database) ==
    /\ pc = "idle"
    /\ db' = database
    /\ call' = [op |-> "plate_detail", name |-> plate_name]
    /\ result' \in plate_detail(database, plate_name)
    /\ pc' = "done"
    /\ UNCHANGED conversion_factors

\* A client requests /scale_recipe/<recipe_name>?servings=<servings> while
\* the database holds the rows of database.
ScaleRecipe(recipe_name, servings, database) ==
    /\ pc = "idle"
    /\ db' = database
    /\ call' = [op |-> "scale_recipe", name |-> recipe_name, servings |-> servings]
    /\ result' \in scale_recipe(database, recipe_name, servings)
    /\ pc' = "done"
    /\ UNCHANGED conversion_factors

\* The user picks the scale command of the menu and types recipe_name and
\* new_servings while the database holds the rows of database.
ScaleRecipeCommand(recipe_name, new_servings, database) ==
    /\ pc = "idle"
    /\ db' = database
    /\ call' = [op |-> "scale_command", name |-> recipe_name, servings |-> new_servings]
    /\ result' \in RecipeManagementSystem_scale_recipe(database, recipe_name, new_servings)
    /\ pc' = "done"
    /\ UNCHANGED conversion_factors

Next ==
    \/ /\ pc = "idle"
       /\ \E quantity \in Quantities, from_unit \in Units, to_unit \in Units :
              Convert(quantity, from_unit, to_unit)
    \/ /\ pc = "idle"
       /\ \E database \in RecipeDatabases : CalculateRecipeCost("R", database)
    \/ /\ pc = "idle"
       /\ \E database \in PlateDatabases : CalculatePlateCost("P", database)
    \/ /\ pc = "idle"
       /\ \E database \in DetailDatabases : PlateDetail("P", database)
    \/ /\ pc = "idle"
       /\ \E database \in ScaleDatabases, servings \in Targets :
              ScaleRecipe("R", servings, database)
    \/ /\ pc = "idle"
       /\ \E database \in ScaleDatabases, new_servings \in Targets :
              ScaleRecipeCommand("R", new_servings, database)

Spec == Init /\ [][Next]_vars

----------------------------------------------------------------------------
(* Properties *)

ConvertDone == pc = "done" /\ call.op = "convert"

CostDone ==
    /\ pc = "done"
    /\ call.op \in {"calculate_recipe_cost", "calculate_plate_cost"}
    /\ result.status = "ok"

\* The joined rows the finished cost calculation went through.
RowsRead ==
    IF call.op = "calculate_recipe_cost"
    THEN Join(lines_of(db.recipe_ingredients, call.name), db.ingredients, 1)
    ELSE Join(lines_of(db.plate_ingredients, call.name), db.ingredients, 1)

\* The row's unit has no conversion path to the ingredient's recipe unit.
Unconvertible(row) == converted_quantity(row).status = "ValueError"

\* quantity normalized to the recipe unit: the converted quantity, or the
\* stored quantity taken as it is when there is no conversion path.
NormalizedQuantity(row) ==
    IF converted_quantity(row).status = "ok"
    THEN Value(converted_quantity(row).value)
    ELSE <<row.quantity, 1>>

RawCost(row) == RatMul(row.cost_per_recipe_unit, NormalizedQuantity(row))

\* x rounded to cents, a tie going to the higher cent
RoundHalfUp(x) == (200 * x[1] + x[2]) \div (2 * x[2])

\* C1: in calculate_recipe_cost and calculate_plate_cost, a line with
\* quantity > 0 and cost_per_recipe_unit > 0 whose unit has no conversion
\* path to the recipe unit is listed with a strictly positive cost, and
\* that cost is part of the returned ingredient_cost.
Claim_C1 ==
    CostDone =>
        \A i \in 1..Len(RowsRead) :
            (/\ RowsRead[i].quantity > 0
             /\ RowsRead[i].cost_per_recipe_unit[1] > 0
             /\ Unconvertible(RowsRead[i]))
            => /\ i \in DOMAIN result.ingredient_breakdown
               /\ result.ingredient_breakdown[i].name = RowsRead[i].ingredient_name
               /\ result.ingredient_breakdown[i].cost > 0
               /\ result.ingredient_cost = SumCosts(result.ingredient_breakdown, 1)

\* The canonical spelling of a unit, read off the alias table.
Canonical(unit) ==
    IF \E a \in DOMAIN unit_aliases : a = unit
    THEN unit_aliases[CHOOSE a \in DOMAIN unit_aliases : a = unit]
    ELSE unit

\* C2: convert(q, a, b) returns q unchanged whenever a and b normalize to
\* the same canonical unit, in particular for a = b, registered or not.
Thm_C2 ==
    (ConvertDone /\ Canonical(call.from_unit) = Canonical(call.to_unit))
        => result.status = "ok" /\ result.value = Quantity(call.quantity)

\* Two units that are different spellings of the cup convert by identity.
Wit_C2 ==
    /\ ConvertDone
    /\ call.from_unit = "cups" /\ call.to_unit = "c" /\ call.quantity = 2
    /\ result.status = "ok" /\ result.value = Quantity(2)

SameOutcome(r, s) == r.status = s.status /\ r.value = s.value

\* C3: replacing an alias by its canonical unit, as source or as target,
\* does not change the outcome of convert (same value, or both fail).
Thm_C3 ==
    ConvertDone =>
        /\ call.from_unit \in DOMAIN unit_aliases =>
               SameOutcome(result, convert(Quantity(call.quantity),
                                           unit_aliases[call.from_unit], call.to_unit, 0))
        /\ call.to_unit \in DOMAIN unit_aliases =>
               SameOutcome(result, convert(Quantity(call.quantity),
                                           call.from_unit, unit_aliases[call.to_unit], 0))

\* convert(1, "t", "tbsp") is convert(1, "t", "T"), one teaspoon in tablespoons.
Wit_C3 ==
    /\ ConvertDone
    /\ call.from_unit = "t" /\ call.to_unit = "tbsp" /\ call.quantity = 1
    /\ result.status = "ok"
    /\ result.value = Mul(Quantity(1), <<333333, 1000000>>)

\* C4: for every registered edge (a, b) -> f, convert(q, a, b) returns q * f.
Claim_C4 ==
    (ConvertDone /\ registered(call.from_unit, call.to_unit))
        => /\ result.status = "ok"
           /\ result.value = Mul(Quantity(call.quantity),
                                 conversion_factors[<<call.from_unit, call.to_unit>>])

\* The factor of the leg a-b taken forwards, and taken backwards.
LegValues(quantity, a, b) ==
    {Mul(quantity, conversion_factors[k]) : k \in {<<a, b>>} \cap DOMAIN conversion_factors}
        \cup
    {Div(quantity, conversion_factors[k]) : k \in {<<b, a>>} \cap DOMAIN conversion_factors}

\* Both legs from-hub and hub-to are registered, in either direction.
BothLegs(from, hub, to) ==
    /\ registered(from, hub) \/ registered(hub, from)
    /\ registered(hub, to) \/ registered(to, hub)

Hubs == {intermediates[i] : i \in 1..Len(intermediates)}

\* The normalized pair has no direct and no reverse edge.
NeedsChain(from, to) ==
    from # to /\ ~registered(from, to) /\ ~registered(to, from)

\* C6: a normalized pair with no direct and no reverse edge and a hub with
\* both legs registered converts to q times (or divided by) the factor of
\* the first leg, then times (or divided by) the factor of the second leg.
Claim_C6 ==
    LET from == normalize(call.from_unit)
        to == normalize(call.to_unit)
    IN  (/\ ConvertDone
         /\ NeedsChain(from, to)
         /\ \E hub \in Hubs : BothLegs(from, hub, to))
        => /\ result.status = "ok"
           /\ \E hub \in Hubs :
                  /\ BothLegs(from, hub, to)
                  /\ \E temp \in LegValues(Quantity(call.quantity), from, hub) :
                         result.value \in LegValues(temp, hub, to)

\* C7: convert raises the no-conversion error whenever the normalized units
\* differ and there is no direct edge, no reverse edge and no hub with both
\* legs registered, as for "ea-tomato" to "bunch".
Thm_C7 ==
    LET from == normalize(call.from_unit)
        to == normalize(call.to_unit)
    IN  (/\ ConvertDone
         /\ NeedsChain(from, to)
         /\ \A hub \in Hubs : ~BothLegs(from, hub, to))
        => result.status = "ValueError"

Wit_C7 ==
    /\ ConvertDone
    /\ call.from_unit = "ea-tomato" /\ call.to_unit = "bunch" /\ call.quantity = 1
    /\ result.status = "ValueError"

\* Every factor applied is the factor of a registered edge.
RegisteredFactors(ops) ==
    \A i \in 1..Len(ops) :
        \E k \in DOMAIN conversion_factors : conversion_factors[k] = ops[i][2]

\* C8: a successful convert applies the factors of at most two registered
\* edges to q: none on the identity branch, one on the direct and reverse
\* branches, two on a hub path.
Thm_C8 ==
    (ConvertDone /\ result.status = "ok")
        => /\ Len(result.value.ops) <= 2
           /\ result.value.base = call.quantity
           /\ RegisteredFactors(result.value.ops)
           /\ result.route = "identity" => Len(result.value.ops) = 0
           /\ result.route \in {"direct", "reverse"} => Len(result.value.ops) = 1
           /\ result.route = "chain" => Len(result.value.ops) = 2

\* A kilogram in ounces goes through the pound and nothing else.
Wit_C8 ==
    /\ ConvertDone
    /\ call.from_unit = "Kg" /\ call.to_unit = "oz." /\ call.quantity = 1
    /\ result.status = "ok" /\ result.route = "chain" /\ result.via = "lb"
    /\ result.value = Mul(Mul(Quantity(1), <<220462, 100000>>), <<16, 1>>)

\* C9: a line whose raw cost (normalized quantity * cost_per_recipe_unit)
\* is above 0 and below 0.01 is priced at exactly 0.01, and no line with a
\* positive raw cost is listed at 0.00.
Claim_C9 ==
    CostDone =>
        \A i \in 1..Len(RowsRead) :
            /\ SubCent(RawCost(RowsRead[i])) => result.ingredient_breakdown[i].cost = 1
            /\ RawCost(RowsRead[i])[1] > 0 => result.ingredient_breakdown[i].cost # 0

\* C10: a line whose raw cost is at least 0.01 is priced at the raw cost
\* rounded to cents, a tie going to the higher cent.
Claim_C10 ==
    CostDone =>
        \A i \in 1..Len(RowsRead) :
            ~BelowCent(RawCost(RowsRead[i]))
                => result.ingredient_breakdown[i].cost = RoundHalfUp(RawCost(RowsRead[i]))

RecipeCostDone ==
    /\ pc = "done"
    /\ call.op = "calculate_recipe_cost"
    /\ result.status = "ok"

\* c cents is the amount of x dollars rounded to the cent: |100 x - c| <= 1/2
RoundsTo(x, c) == 2 * Abs(100 * x[1] - c * x[2]) <= x[2]

\* One line of 2 "C" of an ingredient costing 0.50 per "oz.", no stored prep
\* factor (0.10 applies), 4 servings.
ExampleRecipe ==
    /\ db.recipes = ("R" :> [servings |-> 4, prep_factor |-> NULL])
    /\ db.recipe_ingredients = ("R" :> ("basil" :> [quantity |-> 2, unit |-> "C"]))
    /\ "basil" \in DOMAIN db.ingredients
    /\ db.ingredients["basil"] = [cost_per_recipe_unit |-> <<1, 2>>, recipe_unit |-> "oz."]

\* C11: calculate_recipe_cost applies the prep factor once to the summed
\* line costs: to the cent, prep_factor_cost = ingredient_cost * prep_factor,
\* total_cost = ingredient_cost + prep_factor_cost and cost_per_serving =
\* total_cost / servings; 2 "C" at 0.50 per "oz." with prep factor 0.10 and
\* 4 servings give 8.00, 0.80, 8.80 and 2.20.
Thm_C11 ==
    RecipeCostDone =>
        LET ingredient_cost == Cents(result.ingredient_cost)
            prep_factor_cost == RatMul(ingredient_cost, result.prep_factor)
            total_cost == RatAdd(ingredient_cost, prep_factor_cost)
        IN  /\ RoundsTo(prep_factor_cost, result.prep_factor_cost)
            /\ RoundsTo(total_cost, result.total_cost)
            /\ RoundsTo(RatDiv(total_cost, <<result.servings, 1>>), result.cost_per_serving)
            /\ ExampleRecipe =>
                   /\ result.ingredient_cost = 800
                   /\ result.prep_factor_cost = 80
                   /\ result.total_cost = 880
                   /\ result.cost_per_serving = 220

Wit_C11 ==
    /\ RecipeCostDone
    /\ ExampleRecipe
    /\ result.ingredient_cost = 800 /\ result.prep_factor = <<10, 100>>
    /\ result.prep_factor_cost = 80 /\ result.total_cost = 880
    /\ result.cost_per_serving = 220

\* C12: calculate_recipe_cost on a recipe whose servings value is zero or
\* negative fails and returns no cost breakdown.
Claim_C12 ==
    (/\ pc = "done"
     /\ call.op = "calculate_recipe_cost"
     /\ call.name \in DOMAIN db.recipes
     /\ db.recipes[call.name].servings <= 0)
        => result.status # "ok"

\* The table the calculation of the call is recorded in, and its lines.
OwnerKnown ==
    IF call.op = "calculate_recipe_cost" THEN call.name \in DOMAIN db.recipes
    ELSE call.name \in DOMAIN db.plates

LinesRead ==
    IF call.op = "calculate_recipe_cost" THEN lines_of(db.recipe_ingredients, call.name)
    ELSE lines_of(db.plate_ingredients, call.name)

CostCallDone ==
    /\ pc = "done"
    /\ call.op \in {"calculate_recipe_cost", "calculate_plate_cost"}

\* C13: a cost calculation of a known recipe or plate with a line naming an
\* ingredient that has no row in ingredients fails as a whole, it returns
\* no breakdown.
Claim_C13 ==
    (/\ CostCallDone
     /\ OwnerKnown
     /\ \E name \in DOMAIN LinesRead : name \notin DOMAIN db.ingredients)
        => result.status # "ok"

\* C14: with a known recipe or plate, every line naming a known ingredient
\* and servings > 0, calculate_recipe_cost and calculate_plate_cost return
\* a breakdown with one entry per line and raise nothing, whichever lines
\* have no conversion path.
Thm_C14 ==
    (/\ CostCallDone
     /\ OwnerKnown
     /\ \A name \in DOMAIN LinesRead : name \in DOMAIN db.ingredients
     /\ call.op = "calculate_recipe_cost" => db.recipes[call.name].servings > 0)
        => /\ result.status = "ok"
           /\ Len(result.ingredient_breakdown) = Cardinality(DOMAIN LinesRead)
           /\ \A name \in DOMAIN LinesRead :
                  \E i \in 1..Len(result.ingredient_breakdown) :
                      result.ingredient_breakdown[i].name = name

\* A recipe of two lines, the first with no path to its recipe unit, the
\* second convertible: both are listed.
Wit_C14 ==
    /\ RecipeCostDone
    /\ Len(RowsRead) = 2
    /\ Unconvertible(RowsRead[1]) /\ ~Unconvertible(RowsRead[2])
    /\ Len(result.ingredient_breakdown) = 2

PlateDetailDone ==
    /\ pc = "done"
    /\ call.op = "plate_detail"
    /\ result.status = "render"

\* C15: plate_detail computes subtotal = sum of the sub-recipe contributions
\* + direct ingredient cost, q_factor_cost = subtotal * q_factor and
\* total_cost = subtotal + q_factor_cost: the Q-factor is applied once, over
\* the whole subtotal.
Thm_C15 ==
    PlateDetailDone =>
        LET cost_data == result.data.cost_data
            contributions == SumTotals(result.data.plate_recipes, 1)
        IN  /\ cost_data.recipe_cost = contributions
            /\ cost_data.subtotal = RatAdd(contributions, cost_data.ingredient_cost)
            /\ cost_data.q_factor = result.data.plate.q_factor
            /\ cost_data.q_factor_cost = RatMul(cost_data.subtotal, cost_data.q_factor)
            /\ cost_data.total_cost = RatAdd(cost_data.subtotal, cost_data.q_factor_cost)

\* A plate with two sub-recipes and two direct lines, a quarter of the
\* subtotal added as Q-factor.
Wit_C15 ==
    /\ PlateDetailDone
    /\ Len(result.data.plate_recipes) = 2
    /\ result.data.plate_recipes[1].total_cost[1] > 0
    /\ result.data.plate_recipes[2].total_cost[1] > 0
    /\ Len(result.data.cost_data.ingredient_breakdown) = 2
    /\ result.data.cost_data.ingredient_cost[1] > 0
    /\ result.data.cost_data.q_factor = <<1, 4>>
    /\ result.data.cost_data.q_factor_cost[1] > 0

\* The rows of plate_recipes and of plate_ingredients of the plate shown.
AttachedRead == lines_of(db.plate_recipes, call.name)

PlateLinesRead == lines_of(db.plate_ingredients, call.name)

\* The quantity of a sub-recipe the plate consumes.
Consumed(row) ==
    IF row.quantity # NULL /\ row.quantity[1] # 0 /\ row.unit # ""
    THEN row.quantity ELSE <<row.servings, 1>>

\* C16: no double counting in plate costing.  Each sub-recipe attached to
\* the plate is listed once, with its cost per serving times the quantity
\* consumed, and the recipe cost is the sum of the list; the direct
\* ingredient cost is the sum of the listed costs of the plate's own lines
\* and nothing else: no line of a sub-recipe, no Q-factor surcharge of
\* calculate_plate_cost.
Thm_C16 ==
    PlateDetailDone =>
        LET cost_data == result.data.cost_data
            plate_recipes == result.data.plate_recipes
            breakdown == cost_data.ingredient_breakdown
        IN  /\ Len(plate_recipes) = Cardinality(DOMAIN AttachedRead)
            /\ \A name \in DOMAIN AttachedRead :
                   \E i \in 1..Len(plate_recipes) :
                       /\ plate_recipes[i].name = name
                       /\ plate_recipes[i].total_cost =
                              RatMul(Cents(plate_recipes[i].cost_per_serving),
                                     Consumed(AttachedRead[name]))
                       /\ \E r \in calculate_recipe_cost(db, name) :
                              /\ r.status = "ok"
                              /\ r.cost_per_serving = plate_recipes[i].cost_per_serving
            /\ cost_data.recipe_cost = SumTotals(plate_recipes, 1)
            /\ Len(breakdown) = Cardinality(DOMAIN PlateLinesRead)
            /\ \A name \in DOMAIN PlateLinesRead :
                   \E i \in 1..Len(breakdown) :
                       /\ breakdown[i].name = name
                       /\ breakdown[i].quantity = PlateLinesRead[name].quantity
                       /\ breakdown[i].unit = PlateLinesRead[name].unit
            /\ cost_data.ingredient_cost = Cents(SumCosts(breakdown, 1))

\* A plate with a direct line of flour and a sub-recipe made of flour: the
\* flour of the recipe is in the recipe cost only, and the surcharge
\* calculate_plate_cost computes on the direct lines is not zero.
Wit_C16 ==
    /\ PlateDetailDone
    /\ "R" \in DOMAIN AttachedRead
    /\ "flour" \in DOMAIN lines_of(db.recipe_ingredients, "R")
    /\ "flour" \in DOMAIN PlateLinesRead
    /\ result.data.cost_data.recipe_cost[1] > 0
    /\ result.data.cost_data.ingredient_cost[1] > 0
    /\ \E r \in calculate_plate_cost(db, call.name) :
           r.status = "ok" /\ r.q_factor_cost > 0

\* scale_recipe was called for a whole-unit recipe of b >= 1 servings with a
\* target of t >= 1 servings.
WholeUnitScaled ==
    /\ pc = "done"
    /\ call.op = "scale_recipe"
    /\ call.name \in DOMAIN db.recipes
    /\ db.recipes[call.name].whole_unit
    /\ db.recipes[call.name].servings >= 1
    /\ call.servings >= 1

\* Base servings 8, target 10, base ingredient cost 16.00.
ExampleScaling ==
    /\ db.recipes[call.name].servings = 8
    /\ call.servings = 10
    /\ result.data.cost_data.ingredient_cost = 1600

\* C17: whole-unit scaling in scale_recipe of the web application, for
\* base servings b >= 1 and target t >= 1: units_needed = ceil(t / b),
\* actual_servings = units_needed * b, scaled ingredient cost = base
\* ingredient cost * units_needed and waste_servings = actual_servings - t
\* with 0 <= waste_servings < b; b = 8, t = 10 and base cost 16.00 give 2
\* units, 16 servings, 32.00 and 6 servings of waste.
Thm_C17 ==
    WholeUnitScaled =>
        /\ result.status = "render"
        /\ LET scaled_data == result.data.scaled_data
               b == db.recipes[call.name].servings
               t == call.servings
           IN  /\ scaled_data.is_whole_unit
               /\ (scaled_data.units_needed - 1) * b < t
               /\ t <= scaled_data.units_needed * b
               /\ scaled_data.actual_servings = scaled_data.units_needed * b
               /\ scaled_data.scaled_ingredient_cost =
                      result.data.cost_data.ingredient_cost * scaled_data.units_needed
               /\ scaled_data.waste_servings = scaled_data.actual_servings - t
               /\ 0 <= scaled_data.waste_servings
               /\ scaled_data.waste_servings < b
               /\ ExampleScaling =>
                      /\ scaled_data.units_needed = 2
                      /\ scaled_data.actual_servings = 16
                      /\ scaled_data.scaled_ingredient_cost = 3200
                      /\ scaled_data.waste_servings = 6

Wit_C17 ==
    /\ WholeUnitScaled
    /\ result.status = "render"
    /\ ExampleScaling
    /\ result.data.scaled_data.units_needed = 2
    /\ result.data.scaled_data.actual_servings = 16
    /\ result.data.scaled_data.scaled_ingredient_cost = 3200
    /\ result.data.scaled_data.waste_servings = 6

\* Natural numbers beyond the machine integers: the digits in base 10000,
\* lowest first, no leading zero digit.
RECURSIVE Digits(_)
Digits(n) == IF n = 0 THEN <<>> ELSE <<n % 10000>> \o Digits(n \div 10000)

RECURSIVE Carry(_, _)
Carry(digits, carry) ==
    IF digits = <<>> THEN Digits(carry)
    ELSE <<(Head(digits) + carry) % 10000>>
             \o Carry(Tail(digits), (Head(digits) + carry) \div 10000)

Digit(x, i) == IF i \in 1..Len(x) THEN x[i] ELSE 0

\* x[1] * y[k] + ... + x[k] * y[1], from the term i on
RECURSIVE Coefficient(_, _, _, _)
Coefficient(x, y, k, i) ==
    IF i > k THEN 0 ELSE Digit(x, i) * Digit(y, k + 1 - i) + Coefficient(x, y, k, i + 1)

BigMul(x, y) ==
    IF x = <<>> \/ y = <<>> THEN <<>>
    ELSE Carry([k \in 1..(Len(x) + Len(y) - 1) |-> Coefficient(x, y, k, 1)], 0)

\* x <= y, decided from the highest digit i down
RECURSIVE LeqFrom(_, _, _)
LeqFrom(x, y, i) ==
    IF i = 0 THEN TRUE
    ELSE IF x[i] # y[i] THEN x[i] < y[i]
    ELSE LeqFrom(x, y, i - 1)

BigLeq(x, y) == Len(x) < Len(y) \/ (Len(x) = Len(y) /\ LeqFrom(x, y, Len(x)))

RECURSIVE Trim(_)
Trim(x) == IF x # <<>> /\ x[Len(x)] = 0 THEN Trim(SubSeq(x, 1, Len(x) - 1)) ELSE x

\* x - y for x >= y, from the digit i on
RECURSIVE SubFrom(_, _, _, _)
SubFrom(x, y, i, borrow) ==
    IF i > Len(x) THEN <<>>
    ELSE LET d == x[i] - Digit(y, i) - borrow
         IN  IF d < 0 THEN <<d + 10000>> \o SubFrom(x, y, i + 1, 1)
             ELSE <<d>> \o SubFrom(x, y, i + 1, 0)

BigDistance(x, y) ==
    IF BigLeq(x, y) THEN Trim(SubFrom(y, x, 1, 0)) ELSE Trim(SubFrom(x, y, 1, 0))

\* The numerator and the denominator of the product of the factors a
\* quantity expression applies.
RECURSIVE Numerator(_, _)
Numerator(ops, i) ==
    IF i > Len(ops) THEN <<1>>
    ELSE BigMul(Digits(IF ops[i][1] = "*" THEN ops[i][2][1] ELSE ops[i][2][2]),
                Numerator(ops, i + 1))

RECURSIVE Denominator(_, _)
Denominator(ops, i) ==
    IF i > Len(ops) THEN <<1>>
    ELSE BigMul(Digits(IF ops[i][1] = "*" THEN ops[i][2][2] ELSE ops[i][2][1]),
                Denominator(ops, i + 1))

\* value is q within a relative error of 1e-9: |n - d| * 10^9 <= d for
\* value = q * n / d.  The rounding of the float operations, of the order
\* of 1e-16, is not counted.
WithinTolerance(value, q) ==
    /\ value.base = q
    /\ \/ q = 0
       \/ BigLeq(BigMul(BigDistance(Numerator(value.ops, 1), Denominator(value.ops, 1)),
                        Digits(1000000000)),
                 Denominator(value.ops, 1))

\* C18: for every pair of units a, b with both edges (a, b) and (b, a)
\* registered, convert(convert(q, a, b), b, a) is q within a relative error
\* of 1e-9.
Claim_C18 ==
    (/\ ConvertDone
     /\ registered(call.from_unit, call.to_unit)
     /\ registered(call.to_unit, call.from_unit))
        => /\ result.status = "ok"
           /\ LET back == convert(result.value, call.to_unit, call.from_unit, 0)
              IN  /\ back.status = "ok"
                  /\ WithinTolerance(back.value, call.quantity)

\* The result of the last convert call made once more
Repeated == convert(Quantity(call.quantity), call.from_unit, call.to_unit, 0)

Claim_C20 ==
    LET from == normalize(call.from_unit)
        to == normalize(call.to_unit)
    IN  (/\ ConvertDone
         /\ \E hub \in Hubs : BothLegs(from, hub, to))
        => /\ result.status # "ValueError"
           /\ result.route = "chain" =>
                  /\ BothLegs(from, result.via, to)
                  /\ Len(result.value.ops) = 2

----------------------------------------------------------------------------
(* Order of the hubs *)

\* Position of a hub in the order the chaining loop tries them.
HubIndex(hub) == CHOOSE i \in 1..Len(intermediates) : intermediates[i] = hub

\* C21: a chained result goes through the earliest hub, in hub order, that
\* has both legs registered, and is the quantity taken over that hub's two
\* legs; convert(1, "bunch", "C") goes through "t" (70 * 0.0208333) although
\* "T" offers both legs too.
Thm_C21 ==
    LET from == normalize(call.from_unit)
        to == normalize(call.to_unit)
    IN  /\ (ConvertDone /\ result.route = "chain") =>
               /\ result.via \in Hubs
               /\ BothLegs(from, result.via, to)
               /\ \A i \in 1..Len(intermediates) :
                      i < HubIndex(result.via) => ~BothLegs(from, intermediates[i], to)
               /\ \E temp \in LegValues(Quantity(call.quantity), from, result.via) :
                      result.value \in LegValues(temp, result.via, to)
        /\ (/\ ConvertDone
            /\ call.quantity = 1 /\ call.from_unit = "bunch" /\ call.to_unit = "C")
           => result = Returned(Mul(Mul(Quantity(1), <<70, 1>>), <<208333, 10000000>>),
                                "chain", "t")

Wit_C21 ==
    /\ ConvertDone
    /\ call.quantity = 1 /\ call.from_unit = "bunch" /\ call.to_unit = "C"
    /\ BothLegs("bunch", "t", "C") /\ BothLegs("bunch", "T", "C")
    /\ result.status = "ok" /\ result.via = "t"

----------------------------------------------------------------------------
(* Depth of the recursion *)

\* The call of the current state, entered at nesting level depth.
Entered(depth) ==
    convert(Quantity(call.quantity), call.from_unit, call.to_unit, depth)

\* C22: convert returns or raises its no-conversion error for every pair of
\* unit strings, and its leg calls make no recursive call of their own: the
\* recursion is never more than one level deep.
Thm_C22 ==
    ConvertDone =>
        /\ result.status \in {"ok", "ValueError"}
        /\ Entered(MaxDepth - 1).status # "RecursionError"

\* A hub with both legs registered whose spelling is an alias: its leg calls
\* look the hub up under another name and enter the chaining loop again.
Wit_C22 ==
    LET from == normalize(call.from_unit)
        to == normalize(call.to_unit)
    IN  /\ ConvertDone
        /\ NeedsChain(from, to)
        /\ \E hub \in Hubs : BothLegs(from, hub, to) /\ normalize(hub) # hub
        /\ result.status = "ValueError"
        /\ Entered(MaxDepth).status = "RecursionError"

----------------------------------------------------------------------------
(* The fallback against a line stored in the recipe unit *)

\* The row with its quantity stored in the ingredient's recipe unit.
InRecipeUnit(row) == [row EXCEPT !.unit = row.recipe_unit]

\* The prices the finished calculation gives to a row.
PricesOf(row) ==
    IF call.op = "calculate_recipe_cost" THEN recipe_row(row).costs
    ELSE plate_row(row).costs

\* C23: in both cost calculations a line whose unit has no conversion path
\* is priced as the same calculation prices a line of the same quantity
\* stored in the ingredient's recipe unit: the same raw cost, the same
\* rounding and sub-cent rule, 0.00 when quantity * cost is zero.
Claim_C23 ==
    CostDone =>
        \A i \in 1..Len(RowsRead) :
            Unconvertible(RowsRead[i]) =>
                /\ i \in DOMAIN result.ingredient_breakdown
                /\ result.ingredient_breakdown[i].cost
                       \in PricesOf(InRecipeUnit(RowsRead[i]))

----------------------------------------------------------------------------
(* The Q-factor of calculate_plate_cost against the stored one *)

PlateCostDone ==
    /\ pc = "done"
    /\ call.op = "calculate_plate_cost"
    /\ result.status = "ok"

\* C24: the Q-factor a plate is costed with is the q_factor stored on the
\* plate, 0.04 only when none is stored.  calculate_plate_cost reports that
\* factor, and for a plate with no sub-recipe the total of plate_detail is,
\* to the cent, the total calculate_plate_cost returns for the plate.
Claim_C24 ==
    /\ PlateCostDone => result.q_factor = plate_q_factor(db.plates[call.name])
    /\ (PlateDetailDone /\ DOMAIN AttachedRead = {}) =>
           \E r \in calculate_plate_cost(db, call.name) :
               /\ r.status = "ok"
               /\ r.total_cost \in round2(result.data.cost_data.total_cost, FALSE)

----------------------------------------------------------------------------
(* The quantity override of a sub-recipe *)

\* The quantity override of the row whenever one is stored, the nominal
\* servings of the row when none is.
QuantityConsumed(row) ==
    IF row.quantity # NULL THEN row.quantity ELSE <<row.servings, 1>>

\* C25: the contribution of a sub-recipe to a plate is its cost per serving
\* times the quantity override stored on the plate_recipes row, an override
\* of 0 and an override stored without a unit included, and times the
\* row's servings only when no override is stored.
Claim_C25 ==
    PlateDetailDone =>
        \A name \in DOMAIN AttachedRead :
            \E i \in 1..Len(result.data.plate_recipes) :
                /\ result.data.plate_recipes[i].name = name
                /\ result.data.plate_recipes[i].total_cost =
                       RatMul(Cents(result.data.plate_recipes[i].cost_per_serving),
                              QuantityConsumed(AttachedRead[name]))

----------------------------------------------------------------------------
(* The three rounded totals of a recipe breakdown *)

\* C26: in every breakdown calculate_recipe_cost returns, total_cost is
\* ingredient_cost + prep_factor_cost, exactly, to the cent.
Claim_C26 ==
    RecipeCostDone =>
        result.total_cost = result.ingredient_cost + result.prep_factor_cost

----------------------------------------------------------------------------
(* The breakdown against the ingredient cost *)

\* C27: in every breakdown calculate_recipe_cost and calculate_plate_cost
\* return, ingredient_cost is the sum of the costs listed in
\* ingredient_breakdown, and the breakdown lists each priced line once, in
\* the order read, a line priced by the fallback or listed after a failed
\* conversion included.
Thm_C27 ==
    CostDone =>
        /\ result.ingredient_cost = SumCosts(result.ingredient_breakdown, 1)
        /\ Len(result.ingredient_breakdown) = Len(RowsRead)
        /\ \A i \in 1..Len(RowsRead) :
               /\ result.ingredient_breakdown[i].name = RowsRead[i].ingredient_name
               /\ result.ingredient_breakdown[i].quantity = RowsRead[i].quantity
               /\ result.ingredient_breakdown[i].unit = RowsRead[i].unit

\* A plate with a line that converts and a line that does not: both are
\* listed, the second at 0.0.
Wit_C27 ==
    /\ CostDone
    /\ call.op = "calculate_plate_cost"
    /\ Len(RowsRead) = 2
    /\ ~Unconvertible(RowsRead[1]) /\ Unconvertible(RowsRead[2])
    /\ result.ingredient_breakdown[1].cost > 0
    /\ result.ingredient_breakdown[2].cost = 0
    /\ result.ingredient_cost = result.ingredient_breakdown[1].cost

----------------------------------------------------------------------------
(* The whole-unit flag at both scaling entry points *)

\* A whole-unit recipe with base servings b >= 1 was scaled to t >= 1
\* servings by the command of the menu.
WholeUnitCommand ==
    /\ pc = "done"
    /\ call.op = "scale_command"
    /\ call.name \in DOMAIN db.recipes
    /\ db.recipes[call.name].whole_unit
    /\ db.recipes[call.name].servings >= 1
    /\ call.servings >= 1

\* ceil(t / b) for t >= 1 and b >= 1
Ceiling(t, b) == CHOOSE u \in 1..t : (u - 1) * b < t /\ t <= u * b

\* C28: every scaling entry point honours the whole-unit flag.  For a
\* recipe with whole_unit set, the scale command of the menu and the
\* scale_recipe route of the web application both scale the cost by the
\* integer ceil(target servings / base servings), never by the ratio
\* target servings / base servings.
Claim_C28 ==
    LET units == Ceiling(call.servings, db.recipes[call.name].servings)
    IN  /\ WholeUnitScaled =>
               /\ result.status = "render"
               /\ result.data.scaled_data.scale_factor = <<units, 1>>
               /\ result.data.scaled_data.scaled_ingredient_cost =
                      result.data.cost_data.ingredient_cost * units
        /\ WholeUnitCommand =>
               /\ result.status = "printed"
               /\ result.data.scale_factor = <<units, 1>>
               /\ \E cost_data \in calculate_recipe_cost(db, call.name) :
                      /\ cost_data.status = "ok"
                      /\ result.data.total_cost =
                             RatMul(Cents(cost_data.total_cost), <<units, 1>>)

----------------------------------------------------------------------------
(* Canonical spellings in the table and the hub list *)

\* C29: every unit that is an endpoint of a registered edge and every hub
\* is a fixed point of the alias normalization, the normalization is
\* idempotent, and so every registered edge is found under the normalized
\* spelling of its endpoints.
Claim_C29 ==
    /\ \A edge \in DOMAIN conversion_factors :
           normalize(edge[1]) = edge[1] /\ normalize(edge[2]) = edge[2]
    /\ \A hub \in Hubs : normalize(hub) = hub
    /\ \A unit \in Units : normalize(normalize(unit)) = normalize(unit)
    /\ \A edge \in DOMAIN conversion_factors :
           /\ registered(normalize(edge[1]), normalize(edge[2]))
           /\ conversion_factors[<<normalize(edge[1]), normalize(edge[2])>>]
                  = conversion_factors[edge]

----------------------------------------------------------------------------
(* Symmetry of resolvability *)

\* The call of the current state with its two units exchanged.
Converse == convert(Quantity(call.quantity), call.to_unit, call.from_unit, 0)

\* C30: convert(q, a, b) succeeds exactly when convert(q, b, a) succeeds,
\* for all unit strings a and b, whichever of the identity, direct, reverse
\* and hub branches answers.
Thm_C30 ==
    ConvertDone => (result.status = "ok" <=> Converse.status = "ok")

\* A bunch in cups and a cup in bunches: neither has an edge, both go
\* through a hub.
Wit_C30 ==
    /\ ConvertDone
    /\ call.from_unit = "bunch" /\ call.to_unit = "C"
    /\ result.status = "ok" /\ result.route = "chain"
    /\ Converse.status = "ok" /\ Converse.route = "chain"

====
